---- MODULE Spec2Model ----
(***************************************************************************)
(* GreenThumb server: the plant record store (server/storage.ts), the      *)
(* plant and bulk-watering routes and the push notification sweep          *)
(* (server/routes.ts).  Every await on the store or on the push channel    *)
(* is a point where another request may run, so a handler with several     *)
(* awaits is several actions.                                              *)
(***************************************************************************)
EXTENDS Integers, Sequences, FiniteSets, TLC

VARIABLES now, plants, nAdded, creator, bulk, resp,
          pushSubscriptions, saving, sweep, expectedKey, history, view

storeVars == <<plants, nAdded, creator>>
pushVars == <<pushSubscriptions, saving, sweep, expectedKey, history>>
vars == <<now, plants, nAdded, creator, bulk, resp, pushVars, view>>

-----------------------------------------------------------------------------
(* Bounds *)

\* plants ever inserted in one behaviour
MaxPlants == 2
\* largest watering frequency a request body carries
MaxFreq == 2
\* oldest last-watered date a request body carries, in days before now
MaxAge == 2
\* clock ticks in one behaviour
MaxTicks == 2

-----------------------------------------------------------------------------
(* Time: an instant is a number of ticks, a day is TicksPerDay ticks *)

TimesOfDay == {0, 1}
TicksPerDay == Cardinality(TimesOfDay)
StartNow == MaxAge * TicksPerDay + (TicksPerDay - 1)
MaxNow == StartNow + MaxTicks

startOfDay(t) == t - (t % TicksPerDay)
addDays(t, n) == t + n * TicksPerDay
\* the day an instant falls on (used by the properties, not by the handlers)
DayOf(t) == t \div TicksPerDay

-----------------------------------------------------------------------------
(* Identities *)

Users == {1, 2}
NoSession == 0
Sessions == Users \cup {NoSession}
\* String(userId): plants.user_id is text, users.id is an integer
String(n) == CASE n = 1 -> "1" [] n = 2 -> "2" [] OTHER -> "0"

NULL == 0 - 1
\* an id no plant was ever given (a uuid the store did not generate)
ForgedId == 0
Slots == 1 .. MaxPlants
NoRow == [id |-> NULL]

-----------------------------------------------------------------------------
(* shared/schema.ts: the plants table and insertPlantSchema *)

Columns ==
    {"id", "user_id", "name", "location", "photo_url", "water_frequency_days",
     "last_watered_date", "fertilize_frequency_days", "last_fertilized_date",
     "repot_frequency_months", "last_repotted_date", "prune_frequency_months",
     "last_pruned_date", "notes"}

Required ==
    {"name", "location", "photo_url", "water_frequency_days", "last_watered_date"}

Get(body, f, default) == IF f \in DOMAIN body THEN body[f] ELSE default

\* insertPlantSchema.parse(body) succeeds
ParseOk(body) == Required \subseteq DOMAIN body

\* the row the insert returns: id by defaultRandom, user_id from the session,
\* id / user_id / created_at keys of the body stripped by the schema
InsertRow(newId, userText, body) ==
    [id |-> newId,
     user_id |-> userText,
     name |-> body.name,
     location |-> body.location,
     photo_url |-> body.photo_url,
     water_frequency_days |-> body.water_frequency_days,
     last_watered_date |-> body.last_watered_date,
     fertilize_frequency_days |-> Get(body, "fertilize_frequency_days", NULL),
     last_fertilized_date |-> Get(body, "last_fertilized_date", NULL),
     repot_frequency_months |-> Get(body, "repot_frequency_months", NULL),
     last_repotted_date |-> Get(body, "last_repotted_date", NULL),
     prune_frequency_months |-> Get(body, "prune_frequency_months", NULL),
     last_pruned_date |-> Get(body, "last_pruned_date", NULL),
     notes |-> Get(body, "notes", "")]

-----------------------------------------------------------------------------
(* server/storage.ts: DbStorage, a table as a function from row slots *)

Live(tbl) == {k \in DOMAIN tbl : tbl[k] # NoRow}

\* getPlantsByUserId: the slots whose user_id column equals userText
getPlantsByUserId(tbl, userText) == {k \in Live(tbl) : tbl[k].user_id = userText}

\* WHERE id = :id
RowsWithId(tbl, id) == {k \in Live(tbl) : tbl[k].id = id}

\* an update that writes the whole row, a column the body lacks as null
SetColumnsAll(row, body) == [c \in DOMAIN row |-> Get(body, c, NULL)]

\* .set(body): every key of the body that names a column is assigned
SetColumns(row, body) ==
    [c \in DOMAIN row |-> IF c \in DOMAIN body THEN body[c] ELSE row[c]]

\* the statement is rejected: nothing to set, or the primary key would repeat
updateRejected(tbl, id, body) ==
    \/ DOMAIN body \cap Columns = {}
    \/ /\ "id" \in DOMAIN body
       /\ RowsWithId(tbl, id) # {}
       /\ \E k \in Live(tbl) : tbl[k].id = body.id /\ k \notin RowsWithId(tbl, id)

\* updatePlant: UPDATE plants SET body WHERE id = :id, no owner condition
updatePlant(tbl, id, body) ==
    IF updateRejected(tbl, id, body) THEN tbl
    ELSE [k \in DOMAIN tbl |->
            IF k \in RowsWithId(tbl, id) THEN SetColumns(tbl[k], body) ELSE tbl[k]]

\* deletePlant: DELETE FROM plants WHERE id = :id, no owner condition
deletePlant(tbl, id) ==
    [k \in DOMAIN tbl |-> IF k \in RowsWithId(tbl, id) THEN NoRow ELSE tbl[k]]

\* addPlant: INSERT ... RETURNING into the next free slot
addPlant(tbl, slot, row) == [tbl EXCEPT ![slot] = row]

-----------------------------------------------------------------------------
(* server/routes.ts: session gate and the plant routes *)

\* a gate that lets every request through
requireAuthAny(u) == TRUE

\* requireAuth: the request carries a session with a userId
requireAuth(u) == u # NoSession

\* the bulk request in flight (or the last one answered) and what it observed
NoBulk ==
    [op |-> "none", user |-> NoSession, pc |-> "idle", pending |-> {},
     count |-> 0, value |-> 0, today |-> 0, status |-> 0,
     selected |-> {}, clean |-> TRUE, again |-> FALSE, before |-> 0,
     applied |-> 0]

\* bookkeeping: a request other than the bulk request itself changed the table
Disturbed(tbl) == IF tbl # plants THEN [bulk EXCEPT !.clean = FALSE] ELSE bulk

\* POST /api/plants
PostPlantStatus(u, body) ==
    IF ~requireAuth(u) THEN 401 ELSE IF ~ParseOk(body) THEN 400 ELSE 200

PostPlant(u, body) ==
    /\ (PostPlantStatus(u, body) = 200) => nAdded < MaxPlants
    /\ IF PostPlantStatus(u, body) = 200
       THEN /\ plants' = addPlant(plants, nAdded + 1,
                                  InsertRow(nAdded + 1, String(u), body))
            /\ nAdded' = nAdded + 1
            /\ creator' = [creator EXCEPT ![nAdded + 1] = u]
       ELSE UNCHANGED storeVars
    /\ bulk' = Disturbed(plants')
    /\ UNCHANGED <<now, pushVars>>

\* PATCH /api/plants/:id: the body goes to the store as it came
PatchPlantStatus(u, id, body) ==
    IF ~requireAuth(u) THEN 401
    ELSE IF updateRejected(plants, id, body) THEN 400 ELSE 200

PatchPlant(u, id, body) ==
    /\ plants' = IF requireAuth(u) THEN updatePlant(plants, id, body) ELSE plants
    /\ bulk' = Disturbed(plants')
    /\ UNCHANGED <<now, nAdded, creator, pushVars>>

\* DELETE /api/plants/:id
DeletePlantStatus(u, id) == IF ~requireAuth(u) THEN 401 ELSE 200

DeletePlant(u, id) ==
    /\ plants' = IF requireAuth(u) THEN deletePlant(plants, id) ELSE plants
    /\ bulk' = Disturbed(plants')
    /\ UNCHANGED <<now, nAdded, creator, pushVars>>

-----------------------------------------------------------------------------
(* server/routes.ts: POST /api/plants/water-all and /api/plants/postpone-all *)

BulkOps == {"water-all", "postpone-all"}

\* a filter that misses the plants due exactly today
NeedsWaterStrict(plant, today) ==
    addDays(startOfDay(plant.last_watered_date), plant.water_frequency_days) < today

\* the filter of both bulk routes: nextWateringDate <= today
NeedsWater(plant, today) ==
    addDays(startOfDay(plant.last_watered_date), plant.water_frequency_days) <= today

\* one unit of time back instead of one day
yesterdayByTick(t) == t - 1

\* yesterday.setDate(yesterday.getDate() - 1): the same time of day, one day back
yesterday(t) == addDays(t, 0 - 1)

\* both routes writing yesterday
BulkValueStale(op, t) == addDays(t, 0 - 1)

\* the last_watered_date each route writes
BulkValue(op, t) == IF op = "water-all" THEN t ELSE yesterday(t)

\* the count both routes report: plantsNeedingWater.length
BulkCount(plantsNeedingWater) == Cardinality(plantsNeedingWater)

\* getPlantsByUserId, the filter, and the updates handed to Promise.all
BulkRead(op, u) ==
    /\ bulk.pc # "write"
    /\ IF ~requireAuth(u) THEN UNCHANGED bulk
       ELSE LET today == startOfDay(now)
                userPlants == getPlantsByUserId(plants, String(u))
                plantsNeedingWater ==
                    {k \in userPlants : NeedsWater(plants[k], today)}
                ids == {plants[k].id : k \in plantsNeedingWater}
                \* bookkeeping: this request repeats an answered water-all of
                \* the same user on the same today, the table untouched since
                repeats == /\ op = "water-all"
                           /\ bulk.op = "water-all"
                           /\ bulk.pc = "done"
                           /\ bulk.status = 200
                           /\ bulk.clean
                           /\ bulk.user = u
                           /\ bulk.today = today
            IN  bulk' = [op |-> op, user |-> u, pc |-> "write",
                         pending |-> ids,
                         count |-> BulkCount(plantsNeedingWater),
                         value |-> BulkValue(op, now),
                         today |-> today, status |-> 0,
                         selected |-> ids, clean |-> TRUE,
                         again |-> repeats,
                         before |-> IF repeats THEN bulk.count ELSE 0,
                         applied |-> 0]
    /\ UNCHANGED <<now, storeVars, pushVars>>

\* one of the updates of Promise.all reaches the store; the store may reject it,
\* which answers the request with 400 while the other updates still run
BulkUpdate(id, ok) ==
    /\ bulk.pc = "write"
    /\ id \in bulk.pending
    /\ plants' = IF ok THEN updatePlant(plants, id, [last_watered_date |-> bulk.value])
                 ELSE plants
    /\ bulk' = [bulk EXCEPT !.pending = @ \ {id},
                            !.status = IF ~ok /\ @ = 0 THEN 400 ELSE @,
                            !.applied = IF ok /\ RowsWithId(plants, id) # {}
                                        THEN @ + 1 ELSE @]
    /\ UNCHANGED <<now, nAdded, creator, pushVars>>

\* every update has settled: res.json({ success: true, count })
BulkRespond ==
    /\ bulk.pc = "write"
    /\ bulk.pending = {}
    /\ bulk' = [bulk EXCEPT !.pc = "done", !.status = IF @ = 0 THEN 200 ELSE @]
    /\ UNCHANGED <<now, storeVars, pushVars>>

\* the clock
Tick ==
    /\ now < MaxNow
    /\ now' = now + 1
    /\ UNCHANGED <<storeVars, bulk, pushVars>>

-----------------------------------------------------------------------------
(* server/storage.ts: the push_subscriptions table, rows in insertion order *)

\* a DELETE whose condition matches no row
deletePushSubscriptionNoMatch(tbl, userId) == tbl

\* DELETE FROM push_subscriptions WHERE user_id = :userId; no row is no error
deletePushSubscription(tbl, userId) ==
    SelectSeq(tbl, LAMBDA row : row.user_id # userId)

\* the INSERT of savePushSubscription
insertPushSubscription(tbl, row) == Append(tbl, row)

\* getAllPlants: the live rows in table order
RECURSIVE RowsUpTo(_, _)
RowsUpTo(tbl, n) ==
    IF n = 0 THEN <<>>
    ELSE IF tbl[n] = NoRow THEN RowsUpTo(tbl, n - 1)
         ELSE Append(RowsUpTo(tbl, n - 1), tbl[n])
getAllPlants(tbl) == RowsUpTo(tbl, MaxPlants)

-----------------------------------------------------------------------------
(* server/routes.ts: push subscribe / unsubscribe *)

Endpoints == {"e1", "e2"}

\* subscribe requests between their DELETE and their INSERT, at most, where the
\* sweep runs among them
MaxSaving == 1
\* the same where subscribe requests run among themselves
MaxConcurrent == 2

\* bookkeeping per user: how the last send of a sweep to the user's subscription
\* ended ("transient": it failed and the row was kept; "pruned": 410 and the
\* rows of the user deleted), "none" again once the user subscribes or
\* unsubscribes or a send succeeds
Noted(u, what) == history' = [history EXCEPT ![u] = what]

\* POST /api/push/subscribe up to the DELETE of savePushSubscription
SubscribeStatus(u, valid) ==
    IF ~requireAuth(u) THEN 401 ELSE IF ~valid THEN 400 ELSE 200

SubscribeDelete(u, endpoint, valid) ==
    /\ IF SubscribeStatus(u, valid) = 200
       THEN /\ [user_id |-> u, endpoint |-> endpoint] \notin saving
            /\ pushSubscriptions' = deletePushSubscription(pushSubscriptions, u)
            /\ saving' = saving \cup {[user_id |-> u, endpoint |-> endpoint]}
            /\ Noted(u, IF history[u] = "pruned" THEN "pruned" ELSE "none")
       ELSE UNCHANGED <<pushSubscriptions, saving, history>>
    /\ UNCHANGED <<now, storeVars, bulk, sweep, expectedKey>>

\* the INSERT of savePushSubscription and the answer
SubscribeInsert(req) ==
    /\ req \in saving
    /\ pushSubscriptions' = insertPushSubscription(pushSubscriptions,
          [user_id |-> req.user_id, endpoint |-> req.endpoint,
           p256dh |-> "p256dh", auth |-> "auth"])
    /\ saving' = saving \ {req}
    /\ Noted(req.user_id, "none")
    /\ UNCHANGED <<now, storeVars, bulk, sweep, expectedKey>>

\* DELETE /api/push/subscribe
Unsubscribe(u) ==
    /\ IF requireAuth(u)
       THEN /\ pushSubscriptions' = deletePushSubscription(pushSubscriptions, u)
            /\ Noted(u, IF history[u] = "pruned" THEN "pruned" ELSE "none")
       ELSE UNCHANGED <<pushSubscriptions, history>>
    /\ UNCHANGED <<now, storeVars, bulk, saving, sweep, expectedKey>>

-----------------------------------------------------------------------------
(* server/routes.ts: POST /api/push/check-plants, the notification sweep *)

\* months have a fixed number of days in this model
DaysPerMonth == 2
addMonths(t, n) == addDays(t, n * DaysPerMonth)

\* date-fns isToday / isBefore; isToday reads the clock when it is called
isToday(t) == startOfDay(t) = startOfDay(now)
isBefore(a, b) == a < b

\* a check that takes an absent text column for a date
TruthyTextAny(x) == TRUE

\* JavaScript truthiness of a nullable integer column and of a nullable text column
TruthyNumber(x) == x # NULL /\ x # 0
TruthyText(x) == x # NULL

WaterDue(plant, today) ==
    LET nextWaterDate == addDays(plant.last_watered_date, plant.water_frequency_days)
    IN  isToday(nextWaterDate) \/ isBefore(nextWaterDate, today)

FertilizeDue(plant, today) ==
    /\ TruthyNumber(plant.fertilize_frequency_days)
    /\ TruthyText(plant.last_fertilized_date)
    /\ LET nextFertilizeDate ==
               addDays(plant.last_fertilized_date, plant.fertilize_frequency_days)
       IN  isToday(nextFertilizeDate) \/ isBefore(nextFertilizeDate, today)

RepotDue(plant, today) ==
    /\ TruthyNumber(plant.repot_frequency_months)
    /\ TruthyText(plant.last_repotted_date)
    /\ LET nextRepotDate ==
               addMonths(plant.last_repotted_date, plant.repot_frequency_months)
       IN  isToday(nextRepotDate) \/ isBefore(startOfDay(nextRepotDate), today)

PruneDue(plant, today) ==
    /\ TruthyNumber(plant.prune_frequency_months)
    /\ TruthyText(plant.last_pruned_date)
    /\ LET nextPruneDate ==
               addMonths(plant.last_pruned_date, plant.prune_frequency_months)
       IN  isToday(nextPruneDate) \/ isBefore(startOfDay(nextPruneDate), today)

\* the names pushed to one list of careNeeded
Names(rows) == [j \in 1 .. Len(rows) |-> rows[j].name]

\* names.join(", ")
RECURSIVE NameList(_)
NameList(names) ==
    IF Len(names) = 1 THEN names[1] ELSE names[1] \o ", " \o NameList(Tail(names))

\* an entry that lists the names of a care list of several plants
PartListing(verb, names) ==
    IF Len(names) = 0 THEN <<>>
    ELSE IF Len(names) = 1 THEN <<verb \o ": " \o names[1]>>
    ELSE <<verb \o " " \o ToString(Len(names)) \o " plants: " \o NameList(names)>>

\* one entry of messages for a care list, none when the list is empty
Part(verb, names) ==
    IF Len(names) = 0 THEN <<>>
    ELSE IF Len(names) = 1 THEN <<verb \o ": " \o names[1]>>
    ELSE <<verb \o " " \o ToString(Len(names)) \o " plants">>

\* messages built from every loaded plant, whoever owns it
MessagesOfAll(allPlants, subscription, today) ==
    LET water == Names(SelectSeq(allPlants, LAMBDA p : WaterDue(p, today)))
        fertilize == Names(SelectSeq(allPlants, LAMBDA p : FertilizeDue(p, today)))
        repot == Names(SelectSeq(allPlants, LAMBDA p : RepotDue(p, today)))
        prune == Names(SelectSeq(allPlants, LAMBDA p : PruneDue(p, today)))
    IN  Part("Water", water) \o Part("Fertilize", fertilize)
            \o Part("Repot", repot) \o Part("Prune", prune)

\* messages for one subscription, from the plants loaded at the start
Messages(allPlants, subscription, today) ==
    LET userPlants ==
            SelectSeq(allPlants, LAMBDA p : p.user_id = String(subscription.user_id))
        water == Names(SelectSeq(userPlants, LAMBDA p : WaterDue(p, today)))
        fertilize == Names(SelectSeq(userPlants, LAMBDA p : FertilizeDue(p, today)))
        repot == Names(SelectSeq(userPlants, LAMBDA p : RepotDue(p, today)))
        prune == Names(SelectSeq(userPlants, LAMBDA p : PruneDue(p, today)))
    IN  Part("Water", water) \o Part("Fertilize", fertilize)
            \o Part("Repot", repot) \o Part("Prune", prune)

\* messages.join(" | ")
RECURSIVE Join(_)
Join(messages) ==
    IF Len(messages) = 1 THEN messages[1]
    ELSE messages[1] \o " | " \o Join(Tail(messages))

NoKey == "undefined"
Keys == {NoKey, "secret", "wrong"}

\* the gate: a session, or an x-api-key equal to the expected key
SweepAllowed(session, apiKey) == ~(~requireAuth(session) /\ apiKey # expectedKey)

\* what the channel answers to one send
Outcomes == {"ok", "transient", "gone"}

\* the sweep in flight (or the last one answered); tried lists the positions of
\* subs for which sendNotification was called, noted is history as of the load,
\* by is what the request carried
NoSweep ==
    [pc |-> "idle", plants |-> <<>>, subs |-> <<>>, today |-> 0, i |-> 1,
     outcomes |-> <<>>, tried |-> <<>>, notificationsSent |-> <<>>, status |-> 0,
     noted |-> [u \in Users |-> "none"],
     by |-> [session |-> NoSession, apiKey |-> NoKey]]

\* a loop that stays on a subscription whose send failed
NextSubscriptionRetry(i, outcome) == IF outcome = "transient" THEN i ELSE i + 1

\* where the for loop goes after an iteration
NextSubscription(i, outcome) == i + 1

\* a report that lists a user before the send is known to have succeeded
ReportedAlways(sent, outcome, entry) == Append(sent, entry)

\* notificationsSent.push after the awaited send: skipped when the send threw
Reported(sent, outcome, entry) == IF outcome = "ok" THEN Append(sent, entry) ELSE sent

\* the gate and getAllPlants
SweepStart(session, apiKey) ==
    /\ sweep.pc \in {"idle", "done"}
    /\ sweep' = IF SweepAllowed(session, apiKey)
                THEN [NoSweep EXCEPT !.pc = "load", !.plants = getAllPlants(plants),
                                     !.by = [session |-> session, apiKey |-> apiKey]]
                ELSE [NoSweep EXCEPT !.pc = "done", !.status = 401,
                                     !.by = [session |-> session, apiKey |-> apiKey]]
    /\ UNCHANGED <<now, storeVars, bulk, pushSubscriptions, saving, expectedKey,
                   history>>

\* getAllPushSubscriptions, getAllUsers, today
SweepLoad ==
    /\ sweep.pc = "load"
    /\ sweep' = [sweep EXCEPT !.pc = "loop", !.subs = pushSubscriptions,
                              !.today = startOfDay(now), !.noted = history]
    /\ UNCHANGED <<now, storeVars, bulk, pushSubscriptions, saving, expectedKey,
                   history>>

\* one iteration of the loop up to the answer of the channel: nothing to say, or
\* sendNotification and its outcome; a 410 leads to the delete
SweepVisit(outcome) ==
    /\ sweep.pc = "loop"
    /\ sweep.i <= Len(sweep.subs)
    /\ LET subscription == sweep.subs[sweep.i]
           messages == Messages(sweep.plants, subscription, sweep.today)
       IN  IF messages = <<>>
           THEN /\ sweep' = [sweep EXCEPT !.outcomes = Append(@, "skip"),
                                          !.i = NextSubscription(@, "skip")]
                /\ UNCHANGED history
           ELSE /\ sweep' =
                     [sweep EXCEPT
                        !.outcomes = Append(@, outcome),
                        !.tried = Append(@, sweep.i),
                        !.notificationsSent =
                            Reported(@, outcome,
                                     [user_id |-> subscription.user_id,
                                      message |-> Join(messages)]),
                        !.pc = IF outcome = "gone" THEN "delete" ELSE "loop",
                        !.i = IF outcome = "gone" THEN @
                              ELSE NextSubscription(@, outcome)]
                /\ IF outcome = "gone" THEN UNCHANGED history
                   ELSE Noted(subscription.user_id,
                              IF outcome = "ok" THEN "none" ELSE "transient")
    /\ UNCHANGED <<now, storeVars, bulk, pushSubscriptions, saving, expectedKey>>

\* deletePushSubscription(subscription.user_id) in the catch; when the store
\* rejects it the error leaves the loop and the request is answered 400
SweepDelete(ok) ==
    /\ sweep.pc = "delete"
    /\ LET userId == sweep.subs[sweep.i].user_id
       IN  IF ok
           THEN /\ pushSubscriptions' = deletePushSubscription(pushSubscriptions, userId)
                /\ sweep' = [sweep EXCEPT !.pc = "loop",
                                          !.i = NextSubscription(@, "gone")]
                /\ Noted(userId, "pruned")
           ELSE /\ sweep' = [sweep EXCEPT !.pc = "done", !.status = 400]
                /\ UNCHANGED <<pushSubscriptions, history>>
    /\ UNCHANGED <<now, storeVars, bulk, saving, expectedKey>>

\* the loop is over: res.json({ success: true, notificationsSent })
SweepRespond ==
    /\ sweep.pc = "loop"
    /\ sweep.i > Len(sweep.subs)
    /\ sweep' = [sweep EXCEPT !.pc = "done", !.status = 200]
    /\ UNCHANGED <<now, storeVars, bulk, pushSubscriptions, saving, expectedKey,
                   history>>

-----------------------------------------------------------------------------
(* client/src/components/PlantModal.tsx: the status of an optional track *)

NoStatus == "null"

\* getCareStatus(lastDate, frequencyDays, frequencyMonths) with today of the
\* component; the callers pass null for an absent last date
getCareStatus(lastDate, frequencyDays, frequencyMonths, today) ==
    IF ~TruthyText(lastDate) \/ (~TruthyNumber(frequencyDays) /\ ~TruthyNumber(frequencyMonths))
    THEN NoStatus
    ELSE LET nextDate == IF TruthyNumber(frequencyDays)
                         THEN addDays(lastDate, frequencyDays)
                         ELSE addMonths(lastDate, frequencyMonths)
         IN  IF startOfDay(nextDate) < today THEN "Overdue"
             ELSE IF startOfDay(nextDate) = today THEN "Due today"
             ELSE "In"

-----------------------------------------------------------------------------
(* The Dashboard page: search, sort and the two groups *)

\* a text as its characters
Chars(str) ==
    CASE str = "Fern" -> <<"F", "e", "r", "n">>
      [] str = "Ivy" -> <<"I", "v", "y">>
      [] OTHER -> <<>>

toLowerCase(chars) ==
    [j \in 1 .. Len(chars) |->
        CASE chars[j] = "F" -> "f" [] chars[j] = "E" -> "e" [] chars[j] = "I" -> "i"
          [] OTHER -> chars[j]]

includes(hay, needle) ==
    \E j \in 0 .. (Len(hay) - Len(needle)) : SubSeq(hay, j + 1, j + Len(needle)) = needle

\* a.localeCompare(b) on the names and locations in use
TextRank(str) == CASE str = "Fern" -> 1 [] str = "Ivy" -> 2 [] OTHER -> 0
localeCompare(a, b) == TextRank(a) - TextRank(b)

SearchQueries == {<<>>, <<"F", "E">>, <<"i", "v", "y">>}
SortOptions == {"watering", "name", "location", "date"}

\* created_at of a row: rows are created in the order of their ids
CreatedAt(plant) == plant.id

\* the comparator of sortedPlants
Compare(sortBy, a, b) ==
    CASE sortBy = "watering" ->
            addDays(startOfDay(a.last_watered_date), a.water_frequency_days)
              - addDays(startOfDay(b.last_watered_date), b.water_frequency_days)
      [] sortBy = "name" -> localeCompare(a.name, b.name)
      [] sortBy = "location" -> localeCompare(a.location, b.location)
      [] sortBy = "date" -> CreatedAt(b) - CreatedAt(a)
      [] OTHER -> 0

\* Array.prototype.sort: stable, an element goes behind those it does not precede
RECURSIVE InsertSorted(_, _, _)
InsertSorted(sortBy, sorted, x) ==
    IF sorted = <<>> THEN <<x>>
    ELSE IF Compare(sortBy, x, sorted[Len(sorted)]) >= 0 THEN Append(sorted, x)
    ELSE Append(InsertSorted(sortBy, SubSeq(sorted, 1, Len(sorted) - 1), x),
                sorted[Len(sorted)])

RECURSIVE Sort(_, _)
Sort(sortBy, rows) ==
    IF rows = <<>> THEN <<>>
    ELSE InsertSorted(sortBy, Sort(sortBy, SubSeq(rows, 1, Len(rows) - 1)), rows[Len(rows)])

\* an allGood filter that keeps the plants due today as well
DashAllGoodLoose(plant, today) ==
    addDays(startOfDay(plant.last_watered_date), plant.water_frequency_days) >= today

\* the filters of needsWater and allGood
DashNeedsWater(plant, today) ==
    addDays(startOfDay(plant.last_watered_date), plant.water_frequency_days) <= today
DashAllGood(plant, today) ==
    addDays(startOfDay(plant.last_watered_date), plant.water_frequency_days) > today

\* what the page last rendered
NoView ==
    [op |-> "none", loaded |-> <<>>, searchQuery |-> <<>>, sortBy |-> "watering",
     today |-> 0, sortedPlants |-> <<>>, needsWater |-> <<>>, allGood |-> <<>>]

\* the orders in which the store may return the rows of a set of slots
Orders(S) ==
    {o \in [1 .. Cardinality(S) -> S] : \A a, b \in 1 .. Cardinality(S) : o[a] = o[b] => a = b}

\* one render of the page over the plants GET /api/plants returned
Render(u, order, searchQuery, sortBy) ==
    /\ order \in Orders(getPlantsByUserId(plants, String(u)))
    /\ LET loaded == [j \in 1 .. Len(order) |-> plants[order[j]]]
           today == startOfDay(now)
           filteredPlants ==
               SelectSeq(loaded, LAMBDA plant :
                   includes(toLowerCase(Chars(plant.name)), toLowerCase(searchQuery)))
           sortedPlants == Sort(sortBy, filteredPlants)
       IN  view' = [op |-> "render", loaded |-> loaded, searchQuery |-> searchQuery,
                    sortBy |-> sortBy, today |-> today, sortedPlants |-> sortedPlants,
                    needsWater |->
                        SelectSeq(sortedPlants, LAMBDA plant : DashNeedsWater(plant, today)),
                    allGood |->
                        SelectSeq(sortedPlants, LAMBDA plant : DashAllGood(plant, today))]
    /\ UNCHANGED <<now, storeVars, bulk, resp, pushVars>>

-----------------------------------------------------------------------------
(* client/src/components/PlantCard.tsx: the watering status of one plant.    *)
(* The card runs in the browser: an instant is a number of hours, and        *)
(* startOfDay / addDays follow the local calendar of the browser's time      *)
(* zone, in which the day daylight saving time begins is an hour shorter.    *)

\* 1000 * 60 * 60 * 24 milliseconds, in hours
HoursPerDay == 24
\* the local days of a behaviour are 0 .. CardDays
CardDays == 4
\* the day on which daylight saving time begins in a zone that has it
SpringDay == 2

Zones == {"fixed", "dst"}

\* the instant at which local day n begins
DayStart(zone, n) ==
    HoursPerDay * n - (IF zone = "dst" /\ n > SpringDay THEN 1 ELSE 0)

\* the local day an instant falls on
LocalDay(zone, t) ==
    CHOOSE n \in 0 .. (CardDays + MaxFreq + 1) : DayStart(zone, n) <= t /\ t < DayStart(zone, n + 1)

\* date-fns startOfDay and addDays on local time: addDays keeps the time of day
localStartOfDay(zone, t) == DayStart(zone, LocalDay(zone, t))
localAddDays(zone, t, n) ==
    DayStart(zone, LocalDay(zone, t) + n) + (t - localStartOfDay(zone, t))

\* a card that takes the stored instant as it is
lastWateredRaw(zone, t) == t

\* lastWateredDate = startOfDay(new Date(plant.last_watered_date))
lastWatered(zone, t) == localStartOfDay(zone, t)

\* PlantCard: isOverdue, isDueToday and getWateringStatus
PlantCard(zone, plant, clock) ==
    LET lastWateredDate == lastWatered(zone, plant.last_watered_date)
        nextWateringDate == localAddDays(zone, lastWateredDate, plant.water_frequency_days)
        today == localStartOfDay(zone, clock)
        isOverdue == nextWateringDate < today
        isDueToday == nextWateringDate = today
    IN  [needsWater |-> isOverdue \/ isDueToday,
         status |-> IF isOverdue THEN "OVERDUE"
                    ELSE IF isDueToday THEN "DUE_TODAY" ELSE "UPCOMING",
         \* Math.floor((today - nextWateringDate) / day)
         daysOverdue |-> IF isOverdue THEN (today - nextWateringDate) \div HoursPerDay
                         ELSE 0,
         \* Math.ceil((nextWateringDate - today) / day)
         daysUntil |-> IF isOverdue \/ isDueToday THEN 0
                       ELSE (nextWateringDate - today + HoursPerDay - 1) \div HoursPerDay]

\* the hours after local midnight at which things happen
CardOffsets == {0, 12, 22}
CardInstants(zone, days) == {DayStart(zone, n) + h : n \in days, h \in CardOffsets}

\* what the card last showed, and the zone of the browser
NoCard(zone) == [op |-> "none", zone |-> zone, plant |-> NoRow, clock |-> 0, card |-> NoRow]

\* the card is rendered for the plant in the first slot
CardRender ==
    /\ view' = [op |-> "card", zone |-> view.zone, plant |-> plants[1], clock |-> now,
                card |-> PlantCard(view.zone, plants[1], now)]
    /\ UNCHANGED <<now, storeVars, bulk, resp, pushVars>>

\* the clock of the browser moves on to instant t
CardClock(t) ==
    /\ t > now
    /\ now' = t
    /\ UNCHANGED <<storeVars, bulk, resp, pushVars, view>>

-----------------------------------------------------------------------------
(* Request bodies *)

\* add-plant bodies: a frequency and a last-watered date up to MaxAge days back
WaterBodies ==
    {[name |-> "Fern", location |-> "Hall", photo_url |-> "p",
      water_frequency_days |-> f, last_watered_date |-> addDays(now, 0 - a)] :
        f \in 0 .. MaxFreq, a \in 0 .. MaxAge}

\* the ids a client can name: those handed out so far, or a forged one
KnownIds == {ForgedId} \cup (1 .. nAdded)

-----------------------------------------------------------------------------
(* The bulk routes among single-plant requests *)

\* the last answered single-plant request, where a specification observes it
NoResp == [op |-> "none", user |-> NoSession, id |-> NULL, status |-> 0]
Answer(op, u, id, status) == resp' = [op |-> op, user |-> u, id |-> id, status |-> status]

Init ==
    /\ now = StartNow
    /\ plants = [k \in Slots |-> NoRow]
    /\ nAdded = 0
    /\ creator = [k \in Slots |-> NoSession]
    /\ bulk = NoBulk
    /\ resp = NoResp
    /\ pushSubscriptions = <<>>
    /\ saving = {}
    /\ sweep = NoSweep
    /\ expectedKey = "secret"
    /\ history = [u \in Users |-> "none"]
    /\ view = NoView

NextBulk ==
    \/ \E u \in Users, body \in WaterBodies : PostPlant(u, body) /\ UNCHANGED <<resp, view>>
    \/ \E u \in Users, id \in KnownIds :
          PatchPlant(u, id, [last_watered_date |-> now]) /\ UNCHANGED <<resp, view>>
    \/ \E u \in Users, id \in KnownIds : DeletePlant(u, id) /\ UNCHANGED <<resp, view>>
    \/ \E op \in BulkOps, u \in Users : BulkRead(op, u) /\ UNCHANGED <<resp, view>>
    \/ \E id \in bulk.pending, ok \in BOOLEAN : BulkUpdate(id, ok) /\ UNCHANGED <<resp, view>>
    \/ BulkRespond /\ UNCHANGED <<resp, view>>
    \/ Tick /\ UNCHANGED <<resp, view>>

SpecBulk == Init /\ [][NextBulk]_vars

-----------------------------------------------------------------------------
(* The plant routes with request bodies that name any column *)

\* one add-plant body: watered yesterday, due every day
StoreAddBody ==
    [name |-> "Fern", location |-> "Hall", photo_url |-> "p",
     water_frequency_days |-> 1, last_watered_date |-> addDays(now, 0 - 1)]

\* PATCH bodies: a new owner, a new id, a watering
StoreBodies ==
    {[user_id |-> String(v)] : v \in Users}
        \cup {[id |-> ForgedId], [last_watered_date |-> now]}

NextStore ==
    \/ \E u \in Users :
          /\ PostPlant(u, StoreAddBody)
          /\ Answer("POST", u, NULL, PostPlantStatus(u, StoreAddBody))
          /\ UNCHANGED view
    \/ \E u \in Users, id \in KnownIds, body \in StoreBodies :
          /\ PatchPlant(u, id, body)
          /\ Answer("PATCH", u, id, PatchPlantStatus(u, id, body))
          /\ UNCHANGED view
    \/ \E u \in Users, id \in KnownIds :
          /\ DeletePlant(u, id)
          /\ Answer("DELETE", u, id, DeletePlantStatus(u, id))
          /\ UNCHANGED view
    \/ \E op \in BulkOps, u \in Users : BulkRead(op, u) /\ UNCHANGED <<resp, view>>
    \/ \E id \in bulk.pending : BulkUpdate(id, TRUE) /\ UNCHANGED <<resp, view>>
    \/ BulkRespond /\ UNCHANGED <<resp, view>>

SpecStore == Init /\ [][NextStore]_vars

-----------------------------------------------------------------------------
(* The sweep among subscribe and unsubscribe requests, over a stored table *)

\* the plants in store when the behaviour starts: the users added plants in
\* turn, watered today or yesterday and due every day, and deleted some since
SweepBodies ==
    {[name |-> "Fern", location |-> "Hall", photo_url |-> "p",
      water_frequency_days |-> 1, last_watered_date |-> addDays(StartNow, 0 - a)] :
        a \in {0, 1}}

SlotUser(k) == ((k - 1) % Cardinality(Users)) + 1

SweepTables ==
    {tbl \in [Slots -> {NoRow} \cup
                {InsertRow(k, String(SlotUser(k)), b) : k \in Slots, b \in SweepBodies}] :
        \A k \in Slots : tbl[k] # NoRow => tbl[k].id = k}

InitSweep ==
    /\ now = StartNow
    /\ plants \in SweepTables
    /\ nAdded = MaxPlants
    /\ creator = [k \in Slots |-> SlotUser(k)]
    /\ bulk = NoBulk
    /\ resp = NoResp
    /\ pushSubscriptions = <<>>
    /\ saving = {}
    /\ sweep = NoSweep
    /\ expectedKey = "secret"
    /\ history = [u \in Users |-> "none"]
    /\ view = NoView

NextSweep ==
    \/ \E u \in Users, e \in Endpoints :
          /\ Cardinality(saving) < MaxSaving
          /\ SubscribeDelete(u, e, TRUE) /\ UNCHANGED <<resp, view>>
    \/ \E req \in saving : SubscribeInsert(req) /\ UNCHANGED <<resp, view>>
    \/ \E u \in Users : Unsubscribe(u) /\ UNCHANGED <<resp, view>>
    \/ \E key \in {"secret", "wrong"} : SweepStart(NoSession, key) /\ UNCHANGED <<resp, view>>
    \/ SweepLoad /\ UNCHANGED <<resp, view>>
    \/ \E outcome \in Outcomes : SweepVisit(outcome) /\ UNCHANGED <<resp, view>>
    \/ \E ok \in BOOLEAN : SweepDelete(ok) /\ UNCHANGED <<resp, view>>
    \/ SweepRespond /\ UNCHANGED <<resp, view>>
    \/ Tick /\ UNCHANGED <<resp, view>>

SpecSweep == InitSweep /\ [][NextSweep]_vars

-----------------------------------------------------------------------------
(* Subscribe and unsubscribe requests among themselves *)

NextSubscribe ==
    \/ \E u \in Sessions, e \in Endpoints, valid \in BOOLEAN :
          /\ Cardinality(saving) < MaxConcurrent
          /\ SubscribeDelete(u, e, valid) /\ UNCHANGED <<resp, view>>
    \/ \E req \in saving : SubscribeInsert(req) /\ UNCHANGED <<resp, view>>
    \/ \E u \in Sessions : Unsubscribe(u) /\ UNCHANGED <<resp, view>>

SpecSubscribe == Init /\ [][NextSubscribe]_vars

-----------------------------------------------------------------------------
(* The gate of the sweep under each server configuration *)

\* one subscription per user, as stored before the behaviour starts
CareSubscriptions ==
    [j \in 1 .. Cardinality(Users) |->
        [user_id |-> j, endpoint |-> "e1", p256dh |-> "p256dh", auth |-> "auth"]]

\* PUSH_CHECK_API_KEY || SESSION_SECRET: a configured secret, or neither set
ExpectedKeys == {"secret", NoKey}

InitGate ==
    /\ now = StartNow
    /\ plants \in SweepTables
    /\ nAdded = MaxPlants
    /\ creator = [k \in Slots |-> SlotUser(k)]
    /\ bulk = NoBulk
    /\ resp = NoResp
    /\ pushSubscriptions = CareSubscriptions
    /\ saving = {}
    /\ sweep = NoSweep
    /\ expectedKey \in ExpectedKeys
    /\ history = [u \in Users |-> "none"]
    /\ view = NoView

NextGate ==
    \/ \E session \in Sessions, apiKey \in Keys :
          SweepStart(session, apiKey) /\ UNCHANGED <<resp, view>>
    \/ SweepLoad /\ UNCHANGED <<resp, view>>
    \/ \E outcome \in Outcomes : SweepVisit(outcome) /\ UNCHANGED <<resp, view>>
    \/ SweepDelete(TRUE) /\ UNCHANGED <<resp, view>>
    \/ SweepRespond /\ UNCHANGED <<resp, view>>

SpecGate == InitGate /\ [][NextGate]_vars

-----------------------------------------------------------------------------
(* Two sweep requests over the same stored state, one after the other or     *)
(* interleaved at their awaits.  sweep is the request that runs, view the    *)
(* one that waits.                                                           *)

InitTwoSweeps ==
    /\ now = StartNow
    /\ plants \in SweepTables
    /\ nAdded = MaxPlants
    /\ creator = [k \in Slots |-> SlotUser(k)]
    /\ bulk = NoBulk
    /\ resp = NoResp
    /\ pushSubscriptions = CareSubscriptions
    /\ saving = {}
    /\ sweep = NoSweep
    /\ expectedKey = "secret"
    /\ history = [u \in Users |-> "none"]
    /\ view = NoSweep

\* the running request reaches an await and the waiting one goes on
SweepSwitch ==
    /\ sweep' = view
    /\ view' = sweep
    /\ UNCHANGED <<now, storeVars, bulk, resp, pushSubscriptions, saving,
                   expectedKey, history>>

NextTwoSweeps ==
    \/ /\ sweep.pc = "idle"
       /\ SweepStart(NoSession, "secret") /\ UNCHANGED <<resp, view>>
    \/ SweepLoad /\ UNCHANGED <<resp, view>>
    \/ \E outcome \in Outcomes : SweepVisit(outcome) /\ UNCHANGED <<resp, view>>
    \/ SweepDelete(TRUE) /\ UNCHANGED <<resp, view>>
    \/ SweepRespond /\ UNCHANGED <<resp, view>>
    \/ SweepSwitch

SpecTwoSweeps == InitTwoSweeps /\ [][NextTwoSweeps]_vars

-----------------------------------------------------------------------------
(* The sweep over stored plants with every care track, two subscriptions *)

\* what a stored plant holds for one optional track: nothing, one half only, a
\* frequency of 0, or both halves with the due date today or tomorrow
FertilizePairs ==
    {[f |-> NULL, d |-> NULL], [f |-> 1, d |-> NULL], [f |-> NULL, d |-> StartNow],
     [f |-> 0, d |-> addDays(StartNow, 0 - 1)],
     [f |-> 1, d |-> addDays(StartNow, 0 - 1)], [f |-> 1, d |-> StartNow]}

MonthPairs ==
    {[f |-> NULL, d |-> NULL], [f |-> 1, d |-> NULL],
     [f |-> NULL, d |-> addMonths(StartNow, 0 - 1)],
     [f |-> 1, d |-> addMonths(StartNow, 0 - 1)]}

CareName(k) == IF k = 1 THEN "Fern" ELSE "Ivy"

CareBody(k, a, fe, re, pr) ==
    [name |-> CareName(k), location |-> "Hall", photo_url |-> "p",
     water_frequency_days |-> 1, last_watered_date |-> addDays(StartNow, 0 - a),
     fertilize_frequency_days |-> fe.f, last_fertilized_date |-> fe.d,
     repot_frequency_months |-> re.f, last_repotted_date |-> re.d,
     prune_frequency_months |-> pr.f, last_pruned_date |-> pr.d]

\* the first plant belongs to user 1 and varies in every track; the second is
\* absent or belongs to either user and varies in watering and fertilizing
CareTables ==
    {[k \in Slots |-> IF k = 1 THEN r1 ELSE IF k = 2 THEN r2 ELSE NoRow] :
        r1 \in {InsertRow(1, String(1), CareBody(1, a, fe, re, pr)) :
                  a \in {0, 1}, fe \in FertilizePairs, re \in MonthPairs,
                  pr \in MonthPairs},
        r2 \in {NoRow} \cup
               {InsertRow(2, String(u), CareBody(2, a, fe, [f |-> NULL, d |-> NULL], [f |-> NULL, d |-> NULL])) :
                  u \in Users, a \in {0, 1},
                  fe \in {[f |-> NULL, d |-> NULL],
                          [f |-> 1, d |-> addDays(StartNow, 0 - 1)]}}}

InitCare ==
    /\ now = StartNow
    /\ plants \in CareTables
    /\ nAdded = MaxPlants
    /\ creator = [k \in Slots |-> IF plants[k] = NoRow \/ plants[k].user_id = String(1)
                                  THEN 1 ELSE 2]
    /\ bulk = NoBulk
    /\ resp = NoResp
    /\ pushSubscriptions = CareSubscriptions
    /\ saving = {}
    /\ sweep = NoSweep
    /\ expectedKey = "secret"
    /\ history = [u \in Users |-> "none"]
    /\ view = NoView

NextCare ==
    \/ SweepStart(NoSession, "secret") /\ UNCHANGED <<resp, view>>
    \/ SweepLoad /\ UNCHANGED <<resp, view>>
    \/ \E outcome \in {"ok", "transient"} : SweepVisit(outcome) /\ UNCHANGED <<resp, view>>
    \/ SweepRespond /\ UNCHANGED <<resp, view>>
    \/ Tick /\ UNCHANGED <<resp, view>>

SpecCare == InitCare /\ [][NextCare]_vars

-----------------------------------------------------------------------------
(* The Dashboard over stored plants of one user *)

\* stored plants: a frequency, and a last watering up to MaxAge days back at
\* either time of day
DashBodies(k) ==
    {[name |-> CareName(k), location |-> "Hall", photo_url |-> "p",
      water_frequency_days |-> f, last_watered_date |-> StartNow - d] :
        f \in 1 .. MaxFreq, d \in 0 .. (MaxAge * TicksPerDay)}

DashTables ==
    {tbl \in [Slots -> {NoRow} \cup
                {InsertRow(k, String(1), b) : k \in Slots, b \in DashBodies(1) \cup DashBodies(2)}] :
        \A k \in Slots : tbl[k] # NoRow => (tbl[k].id = k /\ tbl[k].name = CareName(k))}

InitDash ==
    /\ now = StartNow
    /\ plants \in DashTables
    /\ nAdded = MaxPlants
    /\ creator = [k \in Slots |-> 1]
    /\ bulk = NoBulk
    /\ resp = NoResp
    /\ pushSubscriptions = <<>>
    /\ saving = {}
    /\ sweep = NoSweep
    /\ expectedKey = "secret"
    /\ history = [u \in Users |-> "none"]
    /\ view = NoView

NextDash ==
    \/ \E order \in UNION {Orders(S) : S \in SUBSET Slots},
          searchQuery \in SearchQueries, sortBy \in SortOptions :
          Render(1, order, searchQuery, sortBy)
    \/ Tick /\ UNCHANGED <<resp, view>>

SpecDash == InitDash /\ [][NextDash]_vars

-----------------------------------------------------------------------------
(* The sweep over stored plants watered at any time of day *)

InitRule ==
    /\ now = StartNow
    /\ plants \in DashTables
    /\ nAdded = MaxPlants
    /\ creator = [k \in Slots |-> 1]
    /\ bulk = NoBulk
    /\ resp = NoResp
    /\ pushSubscriptions = CareSubscriptions
    /\ saving = {}
    /\ sweep = NoSweep
    /\ expectedKey = "secret"
    /\ history = [u \in Users |-> "none"]
    /\ view = NoView

SpecRule == InitRule /\ [][NextCare]_vars

-----------------------------------------------------------------------------
(* The plant card over one stored plant, in a zone with or without DST *)

InitCard ==
    /\ \E zone \in Zones :
          /\ view = NoCard(zone)
          /\ \E t \in CardInstants(zone, 0 .. 1), f \in 1 .. MaxFreq :
                plants = [k \in Slots |->
                    IF k = 1
                    THEN InsertRow(1, String(1),
                            [name |-> "Fern", location |-> "Hall", photo_url |-> "p",
                             water_frequency_days |-> f, last_watered_date |-> t])
                    ELSE NoRow]
          /\ now \in CardInstants(zone, {1})
    /\ nAdded = 1
    /\ creator = [k \in Slots |-> 1]
    /\ bulk = NoBulk
    /\ resp = NoResp
    /\ pushSubscriptions = <<>>
    /\ saving = {}
    /\ sweep = NoSweep
    /\ expectedKey = "secret"
    /\ history = [u \in Users |-> "none"]

NextCard ==
    \/ CardRender
    \/ \E t \in CardInstants(view.zone, 1 .. CardDays) : CardClock(t)

SpecCard == InitCard /\ [][NextCard]_vars

-----------------------------------------------------------------------------
(* Every protected route, called with and without a session *)

\* the last answered request with what it returned and what it pushed
NoReply ==
    [op |-> "none", user |-> NoSession, id |-> NULL, status |-> 0,
     body |-> <<>>, sent |-> <<>>]
Reply(op, u, id, status, body, sent) ==
    resp' = [op |-> op, user |-> u, id |-> id, status |-> status,
             body |-> body, sent |-> sent]

\* GET /api/plants: the rows of the session's user, in the order the store
\* returns them
ListPlants(u, order) ==
    /\ IF ~requireAuth(u)
       THEN /\ order = <<>>
            /\ Reply("GET", u, NULL, 401, <<>>, <<>>)
       ELSE /\ order \in Orders(getPlantsByUserId(plants, String(u)))
            /\ Reply("GET", u, NULL, 200,
                     [j \in 1 .. Len(order) |-> plants[order[j]]], <<>>)
    /\ UNCHANGED <<now, storeVars, bulk, pushVars, view>>

\* getPushSubscriptionByUserId: the first row of the user, if any
getPushSubscriptionByUserId(tbl, userId) ==
    SelectSeq(tbl, LAMBDA row : row.user_id = userId)

\* POST /api/push/test: one send to the subscription of the session's user
PushTest(u, outcome) ==
    /\ IF ~requireAuth(u) THEN Reply("TEST", u, NULL, 401, <<>>, <<>>)
       ELSE LET found == getPushSubscriptionByUserId(pushSubscriptions, u)
            IN  IF found = <<>> THEN Reply("TEST", u, NULL, 400, <<>>, <<>>)
                ELSE Reply("TEST", u, NULL, IF outcome = "ok" THEN 200 ELSE 400,
                           <<>>, <<found[1].endpoint>>)
    /\ UNCHANGED <<now, storeVars, bulk, pushVars, view>>

InitAuth ==
    /\ now = StartNow
    /\ plants = [k \in Slots |-> NoRow]
    /\ nAdded = 0
    /\ creator = [k \in Slots |-> NoSession]
    /\ bulk = NoBulk
    /\ resp = NoReply
    /\ pushSubscriptions = <<>>
    /\ saving = {}
    /\ sweep = NoSweep
    /\ expectedKey = "secret"
    /\ history = [u \in Users |-> "none"]
    /\ view = NoView

\* the callers: one user with a session, and requests without one
AuthSessions == {1, NoSession}

NextAuth ==
    \/ \E u \in AuthSessions :
          /\ PostPlant(u, StoreAddBody)
          /\ Reply("POST", u, NULL, PostPlantStatus(u, StoreAddBody), <<>>, <<>>)
          /\ UNCHANGED view
    \/ \E u \in AuthSessions, order \in UNION {Orders(S) : S \in SUBSET Slots} :
          ListPlants(u, order)
    \/ \E u \in AuthSessions, id \in KnownIds :
          /\ PatchPlant(u, id, [last_watered_date |-> now])
          /\ Reply("PATCH", u, id,
                   PatchPlantStatus(u, id, [last_watered_date |-> now]), <<>>, <<>>)
          /\ UNCHANGED view
    \/ \E u \in AuthSessions, id \in KnownIds :
          /\ DeletePlant(u, id)
          /\ Reply("DELETE", u, id, DeletePlantStatus(u, id), <<>>, <<>>)
          /\ UNCHANGED view
    \/ \E op \in BulkOps, u \in AuthSessions :
          /\ BulkRead(op, u)
          /\ IF requireAuth(u) THEN UNCHANGED resp
             ELSE Reply(op, u, NULL, 401, <<>>, <<>>)
          /\ UNCHANGED view
    \/ \E id \in bulk.pending : BulkUpdate(id, TRUE) /\ UNCHANGED <<resp, view>>
    \/ BulkRespond /\ UNCHANGED <<resp, view>>
    \/ \E u \in AuthSessions, e \in {"e1"}, valid \in BOOLEAN :
          /\ Cardinality(saving) < MaxSaving
          /\ SubscribeDelete(u, e, valid)
          /\ IF SubscribeStatus(u, valid) = 200 THEN UNCHANGED resp
             ELSE Reply("SUBSCRIBE", u, NULL, SubscribeStatus(u, valid), <<>>, <<>>)
          /\ UNCHANGED view
    \/ \E req \in saving : SubscribeInsert(req) /\ UNCHANGED <<resp, view>>
    \/ \E u \in AuthSessions :
          /\ Unsubscribe(u)
          /\ Reply("UNSUBSCRIBE", u, NULL, IF requireAuth(u) THEN 200 ELSE 401, <<>>, <<>>)
          /\ UNCHANGED view
    \/ \E u \in AuthSessions, outcome \in {"ok", "transient"} : PushTest(u, outcome)

SpecAuth == InitAuth /\ [][NextAuth]_vars

-----------------------------------------------------------------------------
(* The list route among add, update and delete requests of two users *)

NextList ==
    \/ \E u \in Users :
          /\ PostPlant(u, StoreAddBody)
          /\ Reply("POST", u, NULL, PostPlantStatus(u, StoreAddBody), <<>>, <<>>)
          /\ UNCHANGED view
    \/ \E u \in Users, order \in UNION {Orders(S) : S \in SUBSET Slots} :
          ListPlants(u, order)
    \/ \E u \in Users, id \in KnownIds, body \in StoreBodies :
          /\ PatchPlant(u, id, body)
          /\ Reply("PATCH", u, id, PatchPlantStatus(u, id, body), <<>>, <<>>)
          /\ UNCHANGED view
    \/ \E u \in Users, id \in KnownIds :
          /\ DeletePlant(u, id)
          /\ Reply("DELETE", u, id, DeletePlantStatus(u, id), <<>>, <<>>)
          /\ UNCHANGED view

SpecList == InitAuth /\ [][NextList]_vars

-----------------------------------------------------------------------------
(* client/src/pages/PlantDetails.tsx: care actions and edits of one plant *)

Tracks == {"water", "fertilize", "repot", "prune"}

\* the column a care action writes
DateColumn(track) ==
    CASE track = "water" -> "last_watered_date"
      [] track = "fertilize" -> "last_fertilized_date"
      [] track = "repot" -> "last_repotted_date"
      [] track = "prune" -> "last_pruned_date"

\* waterPlantMutation / fertilizePlantMutation / repotPlantMutation /
\* prunePlantMutation: { last_..._date: new Date().toISOString() }
CareActionBody(track) == [c \in {DateColumn(track)} |-> now]

\* handleSaveSettings: the four frequencies of the dialog, an optional one null
\* when the field is empty
SettingsBodies ==
    {[water_frequency_days |-> w, fertilize_frequency_days |-> f,
      repot_frequency_months |-> m, prune_frequency_months |-> m] :
        w \in 1 .. MaxFreq, f \in {NULL, 1}, m \in {NULL, 1}}

\* updateNotesMutation, updateNameMutation, and a request that sets the location
TextBodies ==
    {[notes |-> "dry"], [notes |-> ""], [name |-> "Ivy"], [name |-> "Fern"],
     [location |-> "Desk"]}

\* the kind of edit a body makes
EditKind(body) ==
    IF "notes" \in DOMAIN body THEN "notes"
    ELSE IF "name" \in DOMAIN body THEN "name"
    ELSE IF "location" \in DOMAIN body THEN "location" ELSE "settings"

\* the stored plants of user 1: every track active, nothing due before today
DetailsTable ==
    [k \in Slots |->
        InsertRow(k, String(1),
            CareBody(k, 1, [f |-> 1, d |-> addDays(StartNow, 0 - 1)],
                     [f |-> 1, d |-> addMonths(StartNow, 0 - 1)],
                     [f |-> 1, d |-> addMonths(StartNow, 0 - 1)]))]

InitDetails ==
    /\ now = StartNow
    /\ plants = DetailsTable
    /\ nAdded = MaxPlants
    /\ creator = [k \in Slots |-> 1]
    /\ bulk = NoBulk
    /\ resp = NoReply
    /\ pushSubscriptions = <<>>
    /\ saving = {}
    /\ sweep = NoSweep
    /\ expectedKey = "secret"
    /\ history = [u \in Users |-> "none"]
    /\ view = NoView

\* the page shows the plant with id 1
NextDetails ==
    \/ \E track \in Tracks :
          /\ PatchPlant(1, 1, CareActionBody(track))
          /\ Reply(track, 1, 1, PatchPlantStatus(1, 1, CareActionBody(track)), <<>>, <<>>)
          /\ UNCHANGED view
    \/ \E body \in SettingsBodies \cup TextBodies :
          /\ PatchPlant(1, 1, body)
          /\ Reply(EditKind(body), 1, 1, PatchPlantStatus(1, 1, body), <<>>, <<>>)
          /\ UNCHANGED view
    \/ Tick /\ UNCHANGED <<resp, view>>

SpecDetails == InitDetails /\ [][NextDetails]_vars

-----------------------------------------------------------------------------
(* Properties of the bulk routes, checked under SpecBulk *)

\* the ids of the plants of user u whose watering due date, last watered day
\* plus frequency, is on or before the day of instant t
DueIds(u, t) ==
    {plants[k].id : k \in {j \in Live(plants) :
        /\ plants[j].user_id = String(u)
        /\ DayOf(plants[j].last_watered_date) + plants[j].water_frequency_days
              <= DayOf(t)}}

\* a step in which a bulk request reads the table and selects
BulkReadStep == bulk.pc # "write" /\ bulk'.pc = "write"
\* a step in which one update of the bulk request reaches the store
BulkUpdateStep == bulk.pc = "write" /\ bulk'.pc = "write" /\ bulk'.pending # bulk.pending
\* the bulk request was answered with success and no other request changed the
\* table since it read
BulkSettled(b) == b.pc = "done" /\ b.status = 200 /\ b.clean

\* an update step changes only last_watered_date, only of rows selected at the
\* read and owned by the requesting user, to the value chosen at the read
OnlySelectedWatered ==
    \A k \in Slots :
        plants'[k] # plants[k] =>
            /\ plants[k] # NoRow
            /\ plants[k].id \in bulk.selected
            /\ plants[k].user_id = String(bulk.user)
            /\ plants'[k] = [plants[k] EXCEPT !.last_watered_date = bulk.value]

\* C3: a water-all that repeats an answered water-all of the same user on the
\* same today, with no change of the table in between and every frequency of the
\* user's plants >= 1, selects nothing: count 0, no update issued or applied.
WaterAllIdempotent ==
    ( /\ bulk.again
      /\ bulk.clean
      /\ \A k \in getPlantsByUserId(plants, String(bulk.user)) :
            plants[k].water_frequency_days >= 1 )
    => (bulk.count = 0 /\ bulk.pending = {} /\ bulk.applied = 0)

\* C3 witness: the first water-all watered a plant, the second is answered with 0
WaterAllTwice ==
    /\ bulk.again /\ bulk.clean /\ bulk.pc = "done" /\ bulk.status = 200
    /\ bulk.before > 0 /\ bulk.count = 0
    /\ \A k \in getPlantsByUserId(plants, String(bulk.user)) :
          plants[k].water_frequency_days >= 1

\* C4: water-all selects exactly the requesting user's plants due on or before
\* today and reports their number; every update sets only last_watered_date of
\* a selected plant, to an instant of today; every other field, every plant not
\* selected and every plant of another user stay as they are; once answered, all
\* selected plants carry today.
WaterAllFrame ==
    [][ /\ (BulkReadStep /\ bulk'.op = "water-all") =>
             /\ bulk'.selected = DueIds(bulk'.user, now)
             /\ bulk'.count = Cardinality(DueIds(bulk'.user, now))
             /\ DayOf(bulk'.value) = DayOf(now)
             /\ plants' = plants
        /\ (BulkUpdateStep /\ bulk.op = "water-all") => OnlySelectedWatered
        /\ (BulkSettled(bulk') /\ bulk'.op = "water-all") =>
             \A id \in bulk'.selected : \E k \in Live(plants') :
                 /\ plants'[k].id = id
                 /\ DayOf(plants'[k].last_watered_date) = DayOf(bulk'.today)
      ]_vars

\* C4 witness: a water-all answered with count 1 while a second plant, not due,
\* kept its date
WaterAllDone ==
    /\ bulk.op = "water-all" /\ BulkSettled(bulk) /\ bulk.count = 1
    /\ \E k \in Live(plants) :
          /\ plants[k].id \notin bulk.selected
          /\ DayOf(plants[k].last_watered_date) # DayOf(bulk.today)
    /\ \E k \in Live(plants) :
          /\ plants[k].id \in bulk.selected
          /\ plants[k].last_watered_date = bulk.value

\* C5: postpone-all writes, to every plant it selected (due on or before today),
\* a last_watered_date exactly one day before today, whatever the plant's
\* overdue days and frequency, and changes no plant it did not select.
PostponeAllYesterday ==
    [][ /\ (BulkReadStep /\ bulk'.op = "postpone-all") =>
             /\ bulk'.selected = DueIds(bulk'.user, now)
             /\ DayOf(bulk'.value) = DayOf(now) - 1
             /\ plants' = plants
        /\ (BulkUpdateStep /\ bulk.op = "postpone-all") => OnlySelectedWatered
        /\ (BulkSettled(bulk') /\ bulk'.op = "postpone-all") =>
             \A id \in bulk'.selected : \E k \in Live(plants') :
                 /\ plants'[k].id = id
                 /\ DayOf(plants'[k].last_watered_date) = DayOf(bulk'.today) - 1
      ]_vars

\* C5 witness: a postpone-all answered after moving two plants of different
\* frequency to yesterday
PostponeAllDone ==
    /\ bulk.op = "postpone-all" /\ BulkSettled(bulk) /\ bulk.count = 2
    /\ \E j, k \in Live(plants) :
          /\ {plants[j].id, plants[k].id} = bulk.selected
          /\ plants[j].water_frequency_days # plants[k].water_frequency_days
          /\ DayOf(plants[j].last_watered_date) = DayOf(bulk.today) - 1
          /\ DayOf(plants[k].last_watered_date) = DayOf(bulk.today) - 1

\* C6: after an answered postpone-all every plant it selected (frequency >= 1)
\* is due tomorrow: last watered day plus frequency equals today + 1.
PostponedDueTomorrow ==
    (bulk.op = "postpone-all" /\ BulkSettled(bulk)) =>
        \A k \in Live(plants) :
            (plants[k].id \in bulk.selected /\ plants[k].water_frequency_days >= 1) =>
                DayOf(plants[k].last_watered_date) + plants[k].water_frequency_days
                    = DayOf(bulk.today) + 1

\* C7: the count a bulk request reports is the number of its updates that
\* changed a row, also when a selected plant was deleted after the read.
BulkCountIsApplied ==
    (bulk.pc = "done" /\ bulk.status = 200) => bulk.count = bulk.applied

\* C27: an update of postpone-all leaves alone a plant (frequency >= 1) that
\* was watered on or after the day the request read the plant list: a watering
\* that reached the store after the read is not set back to yesterday.
PostponeKeepsNewerWatering ==
    [][ (BulkUpdateStep /\ bulk.op = "postpone-all") =>
            \A k \in Live(plants) :
                ( /\ plants[k].water_frequency_days >= 1
                  /\ DayOf(plants[k].last_watered_date) >= DayOf(bulk.today) ) =>
                    plants'[k].last_watered_date = plants[k].last_watered_date
      ]_vars

\* C16: every stored plant has a watering frequency of at least 1, an add-plant
\* request with a smaller one being rejected.
StoredFrequencyPositive ==
    \A k \in Live(plants) : plants[k].water_frequency_days >= 1

-----------------------------------------------------------------------------
(* Properties of the plant routes, checked under SpecStore *)

\* a step of a single-plant request (the bulk request in flight did not move)
SingleStep == bulk'.pc = bulk.pc /\ bulk'.pending = bulk.pending

\* C1: an update or delete issued under one user's session with the id of a
\* plant owned by another user either fails or leaves that plant's record as it
\* was.
TenantIsolation ==
    [][ (SingleStep /\ resp'.op \in {"PATCH", "DELETE"}) =>
            \A k \in Live(plants) :
                (plants[k].id = resp'.id /\ plants[k].user_id # String(resp'.user)) =>
                    (resp'.status # 200 \/ plants'[k] = plants[k])
      ]_vars

\* C2: every stored plant carries the id and the owner it was created with.
IdentityImmutable ==
    \A k \in Live(plants) :
        plants[k].id = k /\ plants[k].user_id = String(creator[k])

\* C21: an update request that names a plant id no stored row carries (never
\* created, or deleted) is answered with a failure and changes no record.
NotFoundOnUpdate ==
    [][ (SingleStep /\ resp'.op = "PATCH" /\ RowsWithId(plants, resp'.id) = {}) =>
            (resp'.status # 200 /\ plants' = plants)
      ]_vars

-----------------------------------------------------------------------------
(* Properties of the protected routes, checked under SpecAuth *)

\* a step in which a request without a session was answered
AnonymousStep == resp' # resp /\ resp'.user = NoSession

\* C22: every request without a session to a plant route, a bulk route or the
\* push subscribe / unsubscribe / test route is answered 401, leaves the plant
\* table and the subscription table as they are and sends no push.
AuthPrecedes ==
    [][ AnonymousStep =>
            /\ resp'.status = 401
            /\ plants' = plants
            /\ pushSubscriptions' = pushSubscriptions
            /\ saving' = saving
            /\ bulk' = bulk
            /\ resp'.sent = <<>>
            /\ resp'.body = <<>>
      ]_vars

\* C22 witness: with a plant and a subscription in store, a delete request
\* without a session that names the plant was answered 401
AnonymousDeleteRefused ==
    /\ resp.op = "DELETE" /\ resp.user = NoSession /\ resp.status = 401
    /\ RowsWithId(plants, resp.id) # {}
    /\ Len(pushSubscriptions) >= 1

-----------------------------------------------------------------------------
(* Properties of the list route, checked under SpecList *)

\* a step in which a list request of a logged-in user was answered
ListStep == resp' # resp /\ resp'.op = "GET" /\ resp'.status = 200

\* the rows a list response holds
Listed(r) == {r.body[j] : j \in 1 .. Len(r.body)}

\* the list holds exactly the stored rows whose user_id column names the user
ListOfOwnerColumn ==
    [][ ListStep =>
            /\ Listed(resp') =
                  {plants[k] : k \in getPlantsByUserId(plants, String(resp'.user))}
            /\ Len(resp'.body) = Cardinality(Listed(resp'))
      ]_vars

\* C25: a list request of user U returns exactly the stored plants U created,
\* each once, and no plant another user created.
ListIsolation ==
    [][ ListStep =>
            /\ Listed(resp') =
                  {plants[k] : k \in {j \in Live(plants) : creator[j] = resp'.user}}
            /\ Len(resp'.body) = Cardinality(Listed(resp'))
      ]_vars

-----------------------------------------------------------------------------
(* Properties of the plant page, checked under SpecDetails *)

DateColumns == {DateColumn(track) : track \in Tracks}
FrequencyColumns ==
    {"water_frequency_days", "fertilize_frequency_days", "repot_frequency_months",
     "prune_frequency_months"}
SettingsColumns == FrequencyColumns \cup {"name", "location", "notes"}

\* C24: a water, fertilize, repot or prune action changes, of the plant it
\* names, the last date of that track to the time of the action and nothing
\* else; a settings, name, location or notes edit changes columns among the
\* frequencies, name, location and notes only, none of the four last dates; no
\* other plant changes.
DisjointFields ==
    [][ (resp' # resp \/ plants' # plants) =>
            \A k \in Slots :
                IF plants[k].id # resp'.id THEN plants'[k] = plants[k]
                ELSE IF resp'.op \in Tracks
                THEN plants'[k] = [plants[k] EXCEPT ![DateColumn(resp'.op)] = now]
                ELSE \A c \in Columns :
                        plants'[k][c] # plants[k][c] =>
                            (c \in SettingsColumns /\ c \notin DateColumns)
      ]_vars

\* C24 witness: the plant was fertilized today, and a later settings edit
\* cleared the fertilizing frequency and left that date in place
SettingsKeepDates ==
    /\ resp.op = "settings" /\ resp.status = 200
    /\ plants[1].fertilize_frequency_days = NULL
    /\ plants[1].last_fertilized_date = now
    /\ plants[1].last_watered_date = DetailsTable[1].last_watered_date
    /\ plants[2] = DetailsTable[2]

-----------------------------------------------------------------------------
(* Properties of the sweep, checked under SpecSweep *)

\* the rows of the subscription table that belong to user u
SubscriptionsOf(u) ==
    {j \in 1 .. Len(pushSubscriptions) : pushSubscriptions[j].user_id = u}

\* user u owns, among the plants the sweep loaded, one whose watering due date
\* (last watered day plus frequency) is on or before the day of instant t
WaterCareDue(u, t) ==
    \E j \in 1 .. Len(sweep.plants) :
        /\ sweep.plants[j].user_id = String(u)
        /\ DayOf(sweep.plants[j].last_watered_date)
              + sweep.plants[j].water_frequency_days <= DayOf(t)

\* C8: once a sweep has deleted a user's subscription after a 410, no row of the
\* user is found until the user subscribes again, and a sweep that loads the
\* table meanwhile sends nothing to the user.
PrunedStaysGone ==
    /\ \A u \in Users : history[u] = "pruned" => SubscriptionsOf(u) = {}
    /\ \A j \in 1 .. Len(sweep.tried) :
          sweep.noted[sweep.subs[sweep.tried[j]].user_id] # "pruned"

\* C8 witness: a sweep ran to its answer after a user with a due plant was
\* pruned; it contacted the other subscription and not the pruned user
PrunedSkippedLater ==
    /\ sweep.pc = "done" /\ sweep.status = 200 /\ Len(sweep.tried) >= 1
    /\ \E u \in Users :
          /\ sweep.noted[u] = "pruned" /\ history[u] = "pruned"
          /\ WaterCareDue(u, sweep.today)

\* C9: a sweep that got past the gate and was answered has evaluated every
\* subscription it loaded.
SweepVisitsAll ==
    (sweep.pc = "done" /\ sweep.status # 401) => Len(sweep.outcomes) = Len(sweep.subs)

SweepVisitStep == sweep.pc = "loop" /\ Len(sweep'.outcomes) = Len(sweep.outcomes) + 1

\* the positions of the loaded subscriptions whose send succeeded, in order
Delivered(sw) ==
    SelectSeq([j \in 1 .. Len(sw.outcomes) |-> j], LAMBDA j : sw.outcomes[j] = "ok")

\* C23: the list a sweep reports holds one entry for each subscription whose
\* send succeeded in this run, in the order of the sends, and none for a
\* subscription whose send failed or that had nothing due; a failed send leaves
\* the request unanswered and the loop running, and a sweep whose loop ends is
\* answered with success and this list.
SweepReportAccurate ==
    [][ /\ Len(sweep'.notificationsSent) = Len(Delivered(sweep'))
        /\ \A k \in 1 .. Len(Delivered(sweep')) :
              sweep'.notificationsSent[k].user_id
                  = sweep'.subs[Delivered(sweep')[k]].user_id
        /\ (SweepVisitStep /\ sweep'.outcomes[Len(sweep'.outcomes)] \in {"transient", "gone"}) =>
              /\ sweep'.status = 0
              /\ sweep'.pc \in {"loop", "delete"}
        /\ (sweep.pc = "loop" /\ sweep'.pc = "done") =>
              /\ sweep'.status = 200
              /\ sweep'.notificationsSent = sweep.notificationsSent
      ]_vars

\* C23 witness: a sweep answered with success and one entry, after one send
\* succeeded and the other failed
ReportOfOneDelivered ==
    /\ sweep.pc = "done" /\ sweep.status = 200
    /\ Len(sweep.subs) = 2 /\ Len(sweep.notificationsSent) = 1
    /\ \E j \in 1 .. 2 : sweep.outcomes[j] = "ok"
    /\ \E j \in 1 .. 2 : sweep.outcomes[j] \in {"transient", "gone"}

\* a step in which the sweep's delete after a 410 reached the store
SweepDeleteStep == sweep.pc = "delete" /\ sweep'.pc = "loop"

\* the rows of a subscription table
RowsOf(tbl) == {tbl[j] : j \in 1 .. Len(tbl)}

\* C26: the delete a sweep issues after a 410 removes no row other than the
\* subscription the send was addressed to; a row the user registered with
\* another endpoint after the sweep loaded its list stays.
SweepDeletesOnlyGone ==
    [][ SweepDeleteStep =>
            (RowsOf(pushSubscriptions) \ RowsOf(pushSubscriptions'))
                \subseteq {sweep.subs[sweep.i]}
      ]_vars

-----------------------------------------------------------------------------
(* Properties of the care evaluation of the sweep, checked under SpecCare *)

\* an optional track is active when both its frequency (at least 1) and its
\* last date are present
ActiveTrack(f, d) == f # NULL /\ d # NULL /\ f >= 1

\* the four tracks of a plant at day granularity: the due day is on or before
\* day t (the track is OVERDUE or DUE_TODAY on t)
WaterAttention(plant, t) ==
    DayOf(plant.last_watered_date) + plant.water_frequency_days <= t
FertilizeAttention(plant, t) ==
    /\ ActiveTrack(plant.fertilize_frequency_days, plant.last_fertilized_date)
    /\ DayOf(plant.last_fertilized_date) + plant.fertilize_frequency_days <= t
RepotAttention(plant, t) ==
    /\ ActiveTrack(plant.repot_frequency_months, plant.last_repotted_date)
    /\ DayOf(addMonths(plant.last_repotted_date, plant.repot_frequency_months)) <= t
PruneAttention(plant, t) ==
    /\ ActiveTrack(plant.prune_frequency_months, plant.last_pruned_date)
    /\ DayOf(addMonths(plant.last_pruned_date, plant.prune_frequency_months)) <= t

\* user u owns, among the plants the sweep loaded, one with a track that needs
\* attention on day t
NeedsAttention(u, t) ==
    \E j \in 1 .. Len(sweep.plants) :
        /\ sweep.plants[j].user_id = String(u)
        /\ \/ WaterAttention(sweep.plants[j], t)
           \/ FertilizeAttention(sweep.plants[j], t)
           \/ RepotAttention(sweep.plants[j], t)
           \/ PruneAttention(sweep.plants[j], t)

\* C11: when the sweep evaluates a subscription, it calls send for it exactly
\* when the user owns a plant with an active track due on or before the sweep's
\* today, and never twice for the same subscription.
SendIffAttention ==
    [][ SweepVisitStep =>
            /\ NeedsAttention(sweep.subs[sweep.i].user_id, DayOf(sweep.today))
                  <=> sweep'.tried = Append(sweep.tried, sweep.i)
            /\ ~NeedsAttention(sweep.subs[sweep.i].user_id, DayOf(sweep.today))
                  => sweep'.tried = sweep.tried
            /\ \A a, b \in 1 .. Len(sweep'.tried) :
                  sweep'.tried[a] = sweep'.tried[b] => a = b
      ]_vars

\* the same on the day the sweep took its today
SendIffAttentionSameDay ==
    [][ (SweepVisitStep /\ DayOf(now) = DayOf(sweep.today)) =>
            /\ NeedsAttention(sweep.subs[sweep.i].user_id, DayOf(sweep.today))
                  <=> sweep'.tried = Append(sweep.tried, sweep.i)
      ]_vars

\* the names of the plants of user u, in the order the sweep loaded them, for
\* which the check of one track succeeded
CareGroup(u, track) ==
    LET Due(p) == CASE track = "water" -> WaterDue(p, sweep.today)
                    [] track = "fertilize" -> FertilizeDue(p, sweep.today)
                    [] track = "repot" -> RepotDue(p, sweep.today)
                    [] track = "prune" -> PruneDue(p, sweep.today)
        mine == SelectSeq(sweep.plants, LAMBDA p : p.user_id = String(u))
        due == SelectSeq(mine, LAMBDA p : Due(p))
    IN  [j \in 1 .. Len(due) |-> due[j].name]

\* what one non-empty group contributes to the body
GroupText(g) ==
    IF Len(g.names) = 1 THEN g.verb \o ": " \o g.names[1]
    ELSE g.verb \o " " \o ToString(Len(g.names)) \o " plants"

\* the texts of the groups with one separator between neighbours
RECURSIVE Separated(_)
Separated(gs) ==
    IF Len(gs) = 0 THEN ""
    ELSE IF Len(gs) = 1 THEN GroupText(gs[1])
    ELSE GroupText(gs[1]) \o " | " \o Separated(Tail(gs))

\* the body for user u: the non-empty groups in the order water, fertilize,
\* repot, prune
ExpectedBody(u) ==
    Separated(SelectSeq(
        <<[verb |-> "Water", names |-> CareGroup(u, "water")],
          [verb |-> "Fertilize", names |-> CareGroup(u, "fertilize")],
          [verb |-> "Repot", names |-> CareGroup(u, "repot")],
          [verb |-> "Prune", names |-> CareGroup(u, "prune")]>>,
        LAMBDA g : Len(g.names) > 0))

\* C12: the body of every notification the sweep sends is, for the groups
\* water, fertilize, repot, prune in this order, "<Verb>: <name>" for a group of
\* one plant and "<Verb> <N> plants" for a group of N > 1, the non-empty groups
\* joined by " | "; no names are listed for a group of more than one plant.
MessageFormat ==
    [][ (SweepVisitStep /\ Len(sweep'.notificationsSent) > Len(sweep.notificationsSent)) =>
            sweep'.notificationsSent =
                Append(sweep.notificationsSent,
                       [user_id |-> sweep.subs[sweep.i].user_id,
                        message |-> ExpectedBody(sweep.subs[sweep.i].user_id)])
      ]_vars

\* C12 witness: a notification with a group of two plants and three groups of one
MessageOfFourGroups ==
    \E j \in 1 .. Len(sweep.notificationsSent) :
        sweep.notificationsSent[j].message =
            "Water 2 plants | Fertilize: Fern | Repot: Fern | Prune: Fern"

\* one half of an optional track is present and the other absent
HalfPresent(f, d) == (f # NULL /\ d = NULL) \/ (f = NULL /\ d # NULL)

\* the starts of the days of a behaviour
Todays == {startOfDay(t) : t \in 0 .. MaxNow}

\* C13: for every stored plant and every today, a fertilize, repot or prune track
\* with only its frequency or only its last date is never due in the sweep and
\* has no status in the plant view.
InertTrackNeverDue ==
    \A k \in Live(plants) : \A t \in Todays :
        LET p == plants[k]
        IN  /\ HalfPresent(p.fertilize_frequency_days, p.last_fertilized_date) =>
                  /\ ~FertilizeDue(p, t)
                  /\ getCareStatus(p.last_fertilized_date,
                                   p.fertilize_frequency_days, NULL, t) = NoStatus
            /\ HalfPresent(p.repot_frequency_months, p.last_repotted_date) =>
                  /\ ~RepotDue(p, t)
                  /\ getCareStatus(p.last_repotted_date,
                                   NULL, p.repot_frequency_months, t) = NoStatus
            /\ HalfPresent(p.prune_frequency_months, p.last_pruned_date) =>
                  /\ ~PruneDue(p, t)
                  /\ getCareStatus(p.last_pruned_date,
                                   NULL, p.prune_frequency_months, t) = NoStatus

\* C13 witness: the sweep notified the owner of a plant whose three optional
\* tracks are each half present, and the body names watering only
InertTracksLeftOut ==
    /\ sweep.pc = "done" /\ sweep.status = 200
    /\ \E j \in 1 .. Len(sweep.notificationsSent) :
          /\ sweep.notificationsSent[j].user_id = 1
          /\ sweep.notificationsSent[j].message = "Water: Fern"
    /\ plants[1] # NoRow
    /\ HalfPresent(plants[1].fertilize_frequency_days, plants[1].last_fertilized_date)
    /\ HalfPresent(plants[1].repot_frequency_months, plants[1].last_repotted_date)
    /\ HalfPresent(plants[1].prune_frequency_months, plants[1].last_pruned_date)
    /\ plants[1].fertilize_frequency_days # NULL
    /\ plants[1].last_repotted_date # NULL

\* the stored plants user u created, in table order
RECURSIVE CreatedUpTo(_, _)
CreatedUpTo(u, n) ==
    IF n = 0 THEN <<>>
    ELSE IF plants[n] # NoRow /\ creator[n] = u
         THEN Append(CreatedUpTo(u, n - 1), plants[n]) ELSE CreatedUpTo(u, n - 1)
CreatedBy(u) == CreatedUpTo(u, MaxPlants)

\* C29: the message the sweep sends to a subscription is the message built
\* from the plants its user created alone: the plants of another user add
\* nothing to its groups, their sizes or their names.
MessagePerOwner ==
    [][ (SweepVisitStep /\ sweep'.tried # sweep.tried) =>
            LET subscription == sweep.subs[sweep.i]
                own == Messages(CreatedBy(subscription.user_id), subscription, sweep.today)
            IN  /\ own # <<>>
                /\ (Len(sweep'.notificationsSent) > Len(sweep.notificationsSent)) =>
                      sweep'.notificationsSent[Len(sweep'.notificationsSent)]
                          = [user_id |-> subscription.user_id, message |-> Join(own)]
      ]_vars

\* C29 witness: both users own a plant due for watering and each was sent the
\* name of their own plant only
EachOwnPlantOnly ==
    /\ plants[1] # NoRow /\ plants[2] # NoRow
    /\ plants[1].user_id = String(1) /\ plants[2].user_id = String(2)
    /\ sweep.notificationsSent =
          <<[user_id |-> 1, message |-> "Water: Fern"],
            [user_id |-> 2, message |-> "Water: Ivy"]>>

-----------------------------------------------------------------------------
(* Properties of repeated sweeps, checked under SpecTwoSweeps *)

\* the users whose subscription a sweep request saw reported gone and deleted
GoneUsers(sw) ==
    {sw.subs[j].user_id :
        j \in {a \in 1 .. Len(sw.outcomes) :
                  sw.outcomes[a] = "gone" /\ (sw.pc # "delete" \/ a # sw.i)}}

\* the subscription table after the request sw alone, run on the table it loaded
AfterOne(sw) == SelectSeq(sw.subs, LAMBDA row : row.user_id \notin GoneUsers(sw))

\* the channel answered both requests alike: a subscription reported gone to
\* one of them was not accepted or failed otherwise for the other
SameAnswers ==
    \A a \in 1 .. Len(sweep.outcomes), b \in 1 .. Len(view.outcomes) :
        sweep.subs[a] = view.subs[b] =>
            (sweep.outcomes[a] = "gone" <=> view.outcomes[b] = "gone")

BothDone == sweep.pc = "done" /\ view.pc = "done"

\* the table is the stored one less the rows of the users reported gone
OnlyGoneDeleted ==
    pushSubscriptions =
        SelectSeq(CareSubscriptions,
                  LAMBDA row : row.user_id \notin (GoneUsers(sweep) \cup GoneUsers(view)))

\* both requests answered: the state is the one a single sweep leaves
SameAsOne ==
    (BothDone /\ SameAnswers) =>
        \E sw \in {sweep, view} :
            sw.subs = CareSubscriptions /\ pushSubscriptions = AfterOne(sw)

-----------------------------------------------------------------------------
(* Properties of the subscription table, checked under SpecSubscribe *)

\* C14: the subscription table never holds more than one row of a user,
\* whatever the interleaving of subscribe and unsubscribe requests.
OneSubscriptionPerUser ==
    \A u \in Users : Cardinality(SubscriptionsOf(u)) <= 1

-----------------------------------------------------------------------------
(* Properties of the gate of the sweep, checked under SpecGate *)

\* the sweep request carried a session or the configured secret
Credentialed(by) ==
    \/ by.session # NoSession
    \/ (expectedKey # NoKey /\ by.apiKey = expectedKey)

\* C15: a sweep request with neither a session nor the configured secret is
\* answered 401 and evaluates nothing: it never loads, sends or reaches the
\* deletion of a subscription.
GateRejects ==
    ~Credentialed(sweep.by) =>
        /\ sweep.pc \in {"idle", "done"}
        /\ sweep.status \in {0, 401}
        /\ sweep.tried = <<>>
        /\ sweep.outcomes = <<>>

-----------------------------------------------------------------------------
(* Properties of the Dashboard, checked under SpecDash *)

\* the two groups one after the other
Grouped == view.needsWater \o view.allGood

\* how often a plant is shown
TimesShown(plant) == Cardinality({i \in 1 .. Len(Grouped) : Grouped[i] = plant})

\* the positions of the loaded plants whose name contains the search text
Matching ==
    {j \in 1 .. Len(view.loaded) :
        includes(toLowerCase(Chars(view.loaded[j].name)), toLowerCase(view.searchQuery))}

\* C17 as stated: every loaded plant is in exactly one of the two groups,
\* whatever the search and sort setting.
PartitionOfLoaded ==
    view.op = "render" =>
        /\ Len(view.needsWater) + Len(view.allGood) = Len(view.loaded)
        /\ \A j \in 1 .. Len(view.loaded) : TimesShown(view.loaded[j]) = 1

\* C17: every loaded plant whose name contains the search text is in exactly
\* one of needsWater and allGood, a plant the search hides is in neither, and the
\* two lengths add up to the number of plants the search leaves.
PartitionOfMatching ==
    view.op = "render" =>
        /\ Len(view.needsWater) + Len(view.allGood) = Cardinality(Matching)
        /\ \A j \in 1 .. Len(view.loaded) :
              TimesShown(view.loaded[j]) = IF j \in Matching THEN 1 ELSE 0
        /\ \A i \in 1 .. Len(Grouped) :
              \E j \in 1 .. Len(view.loaded) : Grouped[i] = view.loaded[j]

\* C17 witness: a render of two loaded plants with a search text that hides one
\* of them, the other shown once
PartitionWithSearch ==
    /\ view.op = "render" /\ view.searchQuery # <<>>
    /\ Len(view.loaded) = 2 /\ Cardinality(Matching) = 1
    /\ Len(Grouped) = 1

\* the watering due day of a plant
DueDay(plant) == DayOf(plant.last_watered_date) + plant.water_frequency_days

\* a group is in ascending order of due day, equal due days in ascending order
\* of id
DueThenId(group) ==
    \A i \in 1 .. (Len(group) - 1) :
        \/ DueDay(group[i]) < DueDay(group[i + 1])
        \/ (DueDay(group[i]) = DueDay(group[i + 1]) /\ group[i].id < group[i + 1].id)

\* C18: with the page sorting by watering, needsWater and allGood are each in
\* ascending order of due date, plants of equal due date in ascending order of
\* id, whatever the order in which the store returned them.
GroupsInTotalOrder ==
    (view.op = "render" /\ view.sortBy = "watering") =>
        (DueThenId(view.needsWater) /\ DueThenId(view.allGood))

-----------------------------------------------------------------------------
(* Properties of the watering rule, checked under SpecRule *)

\* the sweep, the bulk routes and the Dashboard agree on a plant for the
\* sweep's today, and with the rule due day <= today
RulesAgree(plant, today) ==
    /\ WaterDue(plant, today) <=> NeedsWater(plant, today)
    /\ NeedsWater(plant, today) <=> DashNeedsWater(plant, today)
    /\ DashNeedsWater(plant, today) <=> (DueDay(plant) <= DayOf(today))

\* C28: when the sweep evaluates a subscription, each plant of its user is in
\* the water group exactly when water-all / postpone-all would select it and
\* the Dashboard would list it under needsWater for the same today, that is
\* when its due day is on or before today, whatever the time of day of the
\* stored last_watered_date.
BoundaryRuleEverywhere ==
    [][ SweepVisitStep =>
            \A j \in 1 .. Len(sweep.plants) :
                sweep.plants[j].user_id = String(sweep.subs[sweep.i].user_id) =>
                    RulesAgree(sweep.plants[j], sweep.today)
      ]_vars

\* the same while the clock is on the day the sweep took its today
BoundaryRuleSameDay ==
    [][ (SweepVisitStep /\ DayOf(now) = DayOf(sweep.today)) =>
            \A j \in 1 .. Len(sweep.plants) :
                sweep.plants[j].user_id = String(sweep.subs[sweep.i].user_id) =>
                    RulesAgree(sweep.plants[j], sweep.today)
      ]_vars

-----------------------------------------------------------------------------
(* Properties of the plant card, checked under SpecCard *)

\* the local day on which the watering of the shown plant is due
CardDueDay ==
    LocalDay(view.zone, view.plant.last_watered_date) + view.plant.water_frequency_days
\* the local day on which the card was rendered
CardToday == LocalDay(view.zone, view.clock)

\* C19: the card classifies the watering track as OVERDUE when the due day is
\* before today, DUE_TODAY when it is today and UPCOMING when it is after
\* today, days compared whatever the times of day of the stored date and of
\* the render.
TernaryClassification ==
    view.op = "card" =>
        /\ view.card.status =
              (IF CardDueDay < CardToday THEN "OVERDUE"
               ELSE IF CardDueDay = CardToday THEN "DUE_TODAY" ELSE "UPCOMING")
        /\ view.card.needsWater <=> (CardDueDay <= CardToday)

\* C19 witness: a plant watered late in the day, rendered early on its due day
DueTodayAcrossTimes ==
    /\ view.op = "card" /\ view.card.status = "DUE_TODAY"
    /\ view.plant.last_watered_date - localStartOfDay(view.zone, view.plant.last_watered_date) = 22
    /\ view.clock = localStartOfDay(view.zone, view.clock)

\* C20: for a plant whose due day is before today the card shows daysOverdue
\* equal to today minus the due day, a positive number of days.
DaysOverdueExact ==
    (view.op = "card" /\ CardDueDay < CardToday) =>
        /\ view.card.daysOverdue = CardToday - CardDueDay
        /\ view.card.daysOverdue >= 1

\* the same in a zone without daylight saving time
DaysOverdueExactFixedZone ==
    (view.op = "card" /\ view.zone = "fixed" /\ CardDueDay < CardToday) =>
        /\ view.card.daysOverdue = CardToday - CardDueDay
        /\ view.card.daysOverdue >= 1

====
